---- MODULE Spec2Model ----
(***************************************************************************)
(* Provider-event reconciliation of the Orbit troubleshooting view          *)
(* (TroubleshootModal): the grouping of provider event records into         *)
(* reconciliation groups, and the link / unlink mutation protocol; and the   *)
(* confirm / recreate actions of the troubleshooting page (ui2).            *)
(*                                                                          *)
(* JavaScript strings are TLA+ strings; template literals are \o.           *)
(* null and undefined are both the value NULL.                              *)
(***************************************************************************)
EXTENDS Integers, Sequences, FiniteSets, TLC

VARIABLES
  sync,            \* prop: [id, endpoints: Seq([provider_id, provider_name])]
  open,            \* prop: the modal is open
  flowEvents,      \* useState: SyncEventSummary[]
  flowLoading,     \* useState
  flowError,       \* useState: string | null
  providerEvents,  \* useState: providerId -> ProviderPanelState
  timeframe,       \* useState
  refreshTick,     \* useState
  actionError,     \* useState: string | null
  actionState,     \* useState: {type, key} | null
  linkEditor,      \* useState: LinkEditorState | null
  linkTargetOrbit, \* useState: string
  groups,          \* useMemo: TroubleshootGroup[] of the last render
  rendered,        \* the last render is of the current state
  fetches,         \* requests of the two effects that have not settled, each with the
                   \* cancelled flag of the effect run that made it
  calls,           \* the link / unlink requests that have not settled
  issued,          \* the number of link / unlink requests handed to the client so far
  pageActionState, \* ui2 page, useState actionState: {type, target} | null
  actionFeedback,  \* ui2 page, useState: {tone, message} | null
  scopeRefreshes,  \* ui2 page: the number of refreshScope() calls so far
  pageCalls,       \* ui2 page: the confirm / recreate requests that have not settled
  pageIssued       \* ui2 page: the number of requests handed to the client so far

\* the state of the troubleshooting page (ui2)
pagevars == <<pageActionState, actionFeedback, scopeRefreshes, pageCalls, pageIssued>>

\* the state of the TroubleshootModal
modalvars == <<sync, open, flowEvents, flowLoading, flowError, providerEvents, timeframe,
               refreshTick, actionError, actionState, linkEditor, linkTargetOrbit, groups,
               rendered, fetches, calls, issued>>

vars == <<modalvars, pagevars>>

----------------------------------------------------------------------------
(* Values *)

NULL == "<null>"

\* JavaScript truthiness of a string | null | undefined
Truthy(value) == value # NULL /\ value # ""

T_NEG == "1969-12-31T23:59:59Z"
T_ONE == "1970-01-01T00:00:01Z"
T_TWO == "1970-01-01T00:00:02Z"
T_BAD == "not-a-date"

\* Date.parse: milliseconds since the epoch, or NaN
DateParse(value) ==
  CASE value = T_NEG -> [nan |-> FALSE, ms |-> -1000]
    [] value = T_ONE -> [nan |-> FALSE, ms |-> 1000]
    [] value = T_TWO -> [nan |-> FALSE, ms |-> 2000]
    [] OTHER -> [nan |-> TRUE, ms |-> 0]

parseTimestamp(value) ==
  IF ~Truthy(value)
    THEN 0
    ELSE LET parsed == DateParse(value)
         IN  IF parsed.nan THEN 0 ELSE parsed.ms

MathMax(S) == CHOOSE m \in S : \A n \in S : n <= m

NoFlow == [id |-> NULL, source_provider_id |-> NULL, target_provider_id |-> NULL,
           occurred_at |-> NULL]

NoPanel == [data |-> <<>>, loading |-> FALSE, error |-> NULL]

NoAction == [type |-> NULL, key |-> NULL]

NoEditor == [providerId |-> NULL, providerEventId |-> NULL, currentOrbitId |-> NULL]

NoPageAction == [type |-> NULL, target |-> NULL]

NoFeedback == [tone |-> NULL, message |-> NULL]

\* the troubleshooting page with no action under way
PageInit ==
  /\ pageActionState = NoPageAction
  /\ actionFeedback = NoFeedback
  /\ scopeRefreshes = 0
  /\ pageCalls = {}
  /\ pageIssued = 0

ProviderEventRecord(eventId, orbitId, title, start, lastUpdated) ==
  [provider_event_id |-> eventId, orbit_event_id |-> orbitId, title |-> title,
   start |-> start, last_updated |-> lastUpdated, tombstoned |-> FALSE]

SyncEventSummary(id, source, target, occurredAt) ==
  [id |-> id, source_provider_id |-> source, target_provider_id |-> target,
   occurred_at |-> occurredAt]

\* the providers prop: id -> name of the providers the page knows
ProvidersProp == [a |-> "Apple", b |-> "Google"]

----------------------------------------------------------------------------
(* The memoised values of one render *)

providerIds == [i \in 1..Len(sync.endpoints) |-> sync.endpoints[i].provider_id]

endpointsByProvider(providerId) ==
  LET hits == {i \in 1..Len(sync.endpoints) : sync.endpoints[i].provider_id = providerId}
  IN  IF hits = {} THEN NULL
      ELSE sync.endpoints[CHOOSE i \in hits : \A j \in hits : j <= i].provider_name

providerLookup(providerId) ==
  IF providerId \in DOMAIN ProvidersProp THEN ProvidersProp[providerId] ELSE NULL

\* lib/providers is not part of the sources: the display form of a name
formatProviderName(name) == IF name = NULL THEN "" ELSE name

\* a ?? b
Coalesce(a, b) == IF a # NULL THEN a ELSE b

\* a || b
OrElse(a, b) == IF Truthy(a) THEN a ELSE b

RECURSIVE allRecordsFrom(_, _, _)
allRecordsFrom(ids, panels, i) ==
  IF i > Len(ids) THEN <<>>
  ELSE LET providerId == ids[i]
           data == panels[providerId].data
       IN  [k \in 1..Len(data) |-> [providerId |-> providerId, record |-> data[k]]]
             \o allRecordsFrom(ids, panels, i + 1)

allRecords(ids, panels) == allRecordsFrom(ids, panels, 1)

providerEventCountsKey(providerId, record) ==
  providerId \o "::" \o record.provider_event_id

\* the Map providerEventCounts, read at a key (0 where the Map has no entry)
providerEventCounts(rows, key) ==
  Cardinality({i \in 1..Len(rows) :
                 providerEventCountsKey(rows[i].providerId, rows[i].record) = key})

\* orbitMembershipCounts with a count of the records in place of the Set of providers
orbitMembershipCountsPerRecord(rows, orbitId) ==
  Cardinality({j \in 1..Len(rows) : /\ Truthy(rows[j].record.orbit_event_id)
                                    /\ rows[j].record.orbit_event_id = orbitId})

\* the Map orbitMembershipCounts, read at an orbit id (0 where it has no entry)
orbitMembershipCounts(rows, orbitId) ==
  Cardinality({rows[i].providerId : i \in
                 {j \in 1..Len(rows) : /\ Truthy(rows[j].record.orbit_event_id)
                                       /\ rows[j].record.orbit_event_id = orbitId}})

\* flowByOrbit in which the first event of an id stays
flowByOrbitFirstStays(events, id) ==
  LET hits == {i \in 1..Len(events) : events[i].id = id}
  IN  IF hits = {} THEN NoFlow
      ELSE events[CHOOSE i \in hits : \A j \in hits : i <= j]

\* the Map flowByOrbit, read at an id: a later event of the list replaces an earlier one
flowByOrbit(events, id) ==
  LET hits == {i \in 1..Len(events) : events[i].id = id}
  IN  IF hits = {} THEN NoFlow
      ELSE events[CHOOSE i \in hits : \A j \in hits : j <= i]

flowOf(events, record) ==
  IF Truthy(record.orbit_event_id) THEN flowByOrbit(events, record.orbit_event_id)
  ELSE NoFlow

groupKey(providerId, record) ==
  Coalesce(record.orbit_event_id,
           "unlinked:" \o providerId \o ":" \o record.provider_event_id)

counterpartNameOf(id) ==
  OrElse(formatProviderName(
           Coalesce(endpointsByProvider(id), Coalesce(providerLookup(id), id))), id)

\* direction with the target looked at before the source
directionTargetFirst(providerId, flow) ==
  IF flow = NoFlow THEN [label |-> "Unmapped", counterpart |-> NULL]
  ELSE IF providerId = flow.target_provider_id
    THEN [label |-> "Inbound",
          counterpart |-> IF Truthy(flow.source_provider_id)
                            THEN counterpartNameOf(flow.source_provider_id) ELSE NULL]
  ELSE IF providerId = flow.source_provider_id
    THEN [label |-> "Outbound",
          counterpart |-> IF Truthy(flow.target_provider_id)
                            THEN counterpartNameOf(flow.target_provider_id) ELSE NULL]
  ELSE [label |-> "Unmapped", counterpart |-> NULL]

\* directionLabel and counterpartName of a record of providerId
direction(providerId, flow) ==
  IF flow = NoFlow THEN [label |-> "Unmapped", counterpart |-> NULL]
  ELSE IF providerId = flow.source_provider_id
    THEN [label |-> "Outbound",
          counterpart |-> IF Truthy(flow.target_provider_id)
                            THEN counterpartNameOf(flow.target_provider_id) ELSE NULL]
  ELSE IF providerId = flow.target_provider_id
    THEN [label |-> "Inbound",
          counterpart |-> IF Truthy(flow.source_provider_id)
                            THEN counterpartNameOf(flow.source_provider_id) ELSE NULL]
  ELSE [label |-> "Unmapped", counterpart |-> NULL]

providerNameOf(providerId) ==
  OrElse(formatProviderName(
           Coalesce(providerLookup(providerId),
                    Coalesce(endpointsByProvider(providerId), providerId))), providerId)

GroupMember(rows, events, providerId, record) ==
  LET dir == direction(providerId, flowOf(events, record))
  IN  [providerId |-> providerId,
       providerName |-> providerNameOf(providerId),
       record |-> record,
       directionLabel |-> dir.label,
       counterpartName |-> dir.counterpart,
       duplicateCount |-> providerEventCounts(rows, providerEventCountsKey(providerId, record)),
       orbitLinkCount |-> IF Truthy(record.orbit_event_id)
                            THEN orbitMembershipCounts(rows, record.orbit_event_id)
                            ELSE 0]

\* the timestamps one record brings to its group
recordTimestamps(events, record) ==
  {parseTimestamp(record.last_updated), parseTimestamp(record.start),
   parseTimestamp(flowOf(events, record).occurred_at)}

\* groupsForEachStep with the member pushed only where the group is created
groupsForEachStepFirstOnly(map, rows, events, row) ==
  LET key == groupKey(row.providerId, row.record)
      hits == {i \in 1..Len(map) : map[i].key = key}
      member == GroupMember(rows, events, row.providerId, row.record)
  IN  IF hits = {}
        THEN Append(map,
               [key |-> key,
                orbitEventId |-> row.record.orbit_event_id,
                title |-> row.record.title,
                start |-> row.record.start,
                orbitOccurredAt |-> flowOf(events, row.record).occurred_at,
                suspectCollision |-> FALSE,
                providerCount |-> 0,
                latestTimestamp |-> MathMax(recordTimestamps(events, row.record)),
                members |-> <<member>>])
        ELSE LET i == CHOOSE h \in hits : TRUE
             IN  [map EXCEPT
                    ![i].latestTimestamp =
                       MathMax({@} \cup recordTimestamps(events, row.record))]

\* groupsForEachStep with title and start taken from the record seen last
groupsForEachStepLastSeen(map, rows, events, row) ==
  LET key == groupKey(row.providerId, row.record)
      hits == {i \in 1..Len(map) : map[i].key = key}
      member == GroupMember(rows, events, row.providerId, row.record)
  IN  IF hits = {}
        THEN Append(map,
               [key |-> key,
                orbitEventId |-> row.record.orbit_event_id,
                title |-> row.record.title,
                start |-> row.record.start,
                orbitOccurredAt |-> flowOf(events, row.record).occurred_at,
                suspectCollision |-> FALSE,
                providerCount |-> 0,
                latestTimestamp |-> MathMax(recordTimestamps(events, row.record)),
                members |-> <<member>>])
        ELSE LET i == CHOOSE h \in hits : TRUE
             IN  [map EXCEPT
                    ![i].title = row.record.title,
                    ![i].start = row.record.start,
                    ![i].latestTimestamp =
                       MathMax({@} \cup recordTimestamps(events, row.record)),
                    ![i].members = Append(@, member)]

\* the body of allRecords.forEach: map is the Map of working groups in insertion order
groupsForEachStep(map, rows, events, row) ==
  LET key == groupKey(row.providerId, row.record)
      hits == {i \in 1..Len(map) : map[i].key = key}
      member == GroupMember(rows, events, row.providerId, row.record)
  IN  IF hits = {}
        THEN Append(map,
               [key |-> key,
                orbitEventId |-> row.record.orbit_event_id,
                title |-> row.record.title,
                start |-> row.record.start,
                orbitOccurredAt |-> flowOf(events, row.record).occurred_at,
                suspectCollision |-> FALSE,
                providerCount |-> 0,
                latestTimestamp |-> MathMax(recordTimestamps(events, row.record)),
                members |-> <<member>>])
        ELSE LET i == CHOOSE h \in hits : TRUE
             IN  [map EXCEPT
                    ![i].latestTimestamp =
                       MathMax({@} \cup recordTimestamps(events, row.record)),
                    ![i].members = Append(@, member)]

RECURSIVE groupsForEach(_, _, _, _)
groupsForEach(map, rows, events, i) ==
  IF i > Len(rows) THEN map
  ELSE groupsForEach(groupsForEachStep(map, rows, events, rows[i]), rows, events, i + 1)

\* String.prototype.localeCompare on the names of the model, which LocaleOrder lists in
\* collation order (case is the last thing the collation looks at)
LocaleOrder == <<"a", "a:", "apple", "Apple", "b", "Google", "skylight">>

LocaleIndex(name) == CHOOSE i \in 1..Len(LocaleOrder) : LocaleOrder[i] = name

localeCompare(x, y) ==
  IF LocaleIndex(x) < LocaleIndex(y) THEN -1
  ELSE IF LocaleIndex(x) > LocaleIndex(y) THEN 1 ELSE 0

compareMembers(a, b) == localeCompare(a.providerName, b.providerName)

\* compareGroups with the older group first
compareGroupsOldestFirst(a, b) ==
  IF a.suspectCollision # b.suspectCollision
    THEN (IF a.suspectCollision THEN -1 ELSE 1)
    ELSE a.latestTimestamp - b.latestTimestamp

compareGroups(a, b) ==
  IF a.suspectCollision # b.suspectCollision
    THEN (IF a.suspectCollision THEN -1 ELSE 1)
    ELSE b.latestTimestamp - a.latestTimestamp

\* Array.prototype.sort is stable: an element goes behind every element that does not
\* compare greater than it
RECURSIVE insertMember(_, _)
insertMember(sorted, m) ==
  IF sorted = <<>> THEN <<m>>
  ELSE LET last == sorted[Len(sorted)]
       IN  IF compareMembers(last, m) > 0
             THEN Append(insertMember(SubSeq(sorted, 1, Len(sorted) - 1), m), last)
             ELSE Append(sorted, m)

RECURSIVE sortMembersFrom(_, _, _)
sortMembersFrom(sorted, members, i) ==
  IF i > Len(members) THEN sorted
  ELSE sortMembersFrom(insertMember(sorted, members[i]), members, i + 1)

\* the members left in the order in which the records were pushed
sortMembersKeepsOrder(members) == members

sortMembers(members) == sortMembersFrom(<<>>, members, 1)

RECURSIVE insertGroup(_, _)
insertGroup(sorted, g) ==
  IF sorted = <<>> THEN <<g>>
  ELSE LET last == sorted[Len(sorted)]
       IN  IF compareGroups(last, g) > 0
             THEN Append(insertGroup(SubSeq(sorted, 1, Len(sorted) - 1), g), last)
             ELSE Append(sorted, g)

RECURSIVE sortGroupsFrom(_, _, _)
sortGroupsFrom(sorted, gs, i) ==
  IF i > Len(gs) THEN sorted
  ELSE sortGroupsFrom(insertGroup(sorted, gs[i]), gs, i + 1)

sortGroups(gs) == sortGroupsFrom(<<>>, gs, 1)

\* suspectCollisionOf without the look at the duplicate counts
suspectCollisionOfMembersOnly(members) == Len(members) > 1

suspectCollisionOf(members) ==
  Len(members) > 1 \/ \E i \in 1..Len(members) : members[i].duplicateCount > 1

\* the map over Array.from(map.values())
finishGroup(group) ==
  LET members == sortMembers(group.members)
  IN  [group EXCEPT
         !.members = members,
         !.suspectCollision = suspectCollisionOf(members),
         !.providerCount = Cardinality({members[i].providerId : i \in 1..Len(members)})]

\* the useMemo groups
computeGroups(rows, events) ==
  LET map == groupsForEach(<<>>, rows, events, 1)
  IN  sortGroups([i \in 1..Len(map) |-> finishGroup(map[i])])

\* the useMemo orbitOptions: the ids, in the order of groups
RECURSIVE orbitOptionsFrom(_, _, _)
orbitOptionsFrom(seen, gs, i) ==
  IF i > Len(gs) THEN seen
  ELSE orbitOptionsFrom(
         IF /\ Truthy(gs[i].orbitEventId)
            /\ \A k \in 1..Len(seen) : seen[k] # gs[i].orbitEventId
           THEN Append(seen, gs[i].orbitEventId) ELSE seen,
         gs, i + 1)

orbitOptions(gs) == orbitOptionsFrom(<<>>, gs, 1)

----------------------------------------------------------------------------
(* Bounds and the inputs the specifications draw from *)

MaxRecords == 3

MaxFlows == 1

Range(seq) == {seq[i] : i \in 1..Len(seq)}

SyncThree ==
  [id |-> "s1",
   endpoints |-> <<[provider_id |-> "a", provider_name |-> "apple"],
                   [provider_id |-> "a:", provider_name |-> "skylight"],
                   [provider_id |-> "b", provider_name |-> "Google"]>>]

\* the snapshots of at most n records: <<index of the provider, record>> in provider order
RowsUpTo(ids, universe, n) ==
  UNION {{rows \in [1..k -> (1..Len(ids)) \X universe] :
            \A i \in 1..(k - 1) : rows[i][1] <= rows[i + 1][1]} : k \in 0..n}

DataOf(ids, rows, providerId) ==
  LET mine == SelectSeq(rows, LAMBDA row : ids[row[1]] = providerId)
  IN  [i \in 1..Len(mine) |-> mine[i][2]]

PanelsOf(ids, rows) ==
  [providerId \in Range(ids) |->
     [data |-> DataOf(ids, rows, providerId), loading |-> FALSE, error |-> NULL]]

SeqsUpTo(universe, n) == UNION {[1..k -> universe] : k \in 0..n}

KeysRecords ==
  {ProviderEventRecord(e, o, "t", NULL, NULL) :
     e \in {"a", ":a"}, o \in {NULL, "", "o1", "unlinked:b:a"}}

TimeProfiles == {<<NULL, NULL>>, <<T_NEG, NULL>>, <<T_ONE, T_BAD>>, <<"", T_TWO>>}

TimesRecords ==
  {ProviderEventRecord("a", o, "t", tp[2], tp[1]) : o \in {NULL, "o1"}, tp \in TimeProfiles}

TimesFlows ==
  {<<>>, <<SyncEventSummary("o1", "a", "b", T_TWO)>>,
         <<SyncEventSummary("o1", "a", "b", T_NEG)>>}

FlowsRecords == {ProviderEventRecord("a", o, "t", NULL, NULL) : o \in {NULL, "", "o1"}}

\* flow records of which several have the same id
RepeatedFlows ==
  {SyncEventSummary(id, st[1], st[2], at) :
     id \in {"o1", "o2"}, st \in {<<"a", "b">>, <<"b", "a">>}, at \in {T_ONE, T_TWO}}

RepeatedRecords == {ProviderEventRecord("a", o, "t", NULL, NULL) : o \in {NULL, "o1"}}

MaxRepeatedFlows == 2

\* records that differ in title and start
TitlesRecords ==
  {ProviderEventRecord("a", o, t, st, NULL) :
     o \in {NULL, "o1"}, t \in {"t1", "t2"}, st \in {T_ONE, T_TWO}}

FlowsFlows ==
  {SyncEventSummary(id, s, t, NULL) :
     id \in {"o1", "o2"}, s \in {NULL, "a", "b"}, t \in {NULL, "a", "b"}}

----------------------------------------------------------------------------
(* Specifications of the grouping: a settled snapshot is rendered *)

\* the state of the modal once every fetch of the open modal has settled with data
SettledInit(theSync, rows, events) ==
  /\ sync = theSync
  /\ open = TRUE
  /\ flowEvents = events
  /\ flowLoading = FALSE
  /\ flowError = NULL
  /\ providerEvents =
       PanelsOf([i \in 1..Len(theSync.endpoints) |-> theSync.endpoints[i].provider_id], rows)
  /\ timeframe = "7d"
  /\ refreshTick = 0
  /\ actionError = NULL
  /\ actionState = NoAction
  /\ linkEditor = NoEditor
  /\ linkTargetOrbit = ""
  /\ groups = <<>>
  /\ rendered = FALSE
  /\ fetches = {}
  /\ calls = {}
  /\ issued = 0
  /\ PageInit

\* a render of the component: the memoised groups are those of the current state
Render ==
  /\ ~rendered
  /\ groups' = computeGroups(allRecords(providerIds, providerEvents), flowEvents)
  /\ rendered' = TRUE
  /\ UNCHANGED <<pagevars, sync, open, flowEvents, flowLoading, flowError, providerEvents,
                 timeframe, refreshTick, actionError, actionState, linkEditor,
                 linkTargetOrbit, fetches, calls, issued>>

InitKeys ==
  \E rows \in RowsUpTo(<<"a", "a:", "b">>, KeysRecords, MaxRecords) :
    SettledInit(SyncThree, rows, <<>>)

InitTimes ==
  \E rows \in RowsUpTo(<<"a", "a:", "b">>, TimesRecords, MaxRecords) :
    \E events \in TimesFlows : SettledInit(SyncThree, rows, events)

InitFlows ==
  \E rows \in RowsUpTo(<<"a", "a:", "b">>, FlowsRecords, MaxRecords) :
    \E events \in SeqsUpTo(FlowsFlows, MaxFlows) : SettledInit(SyncThree, rows, events)

InitTitles ==
  \E rows \in RowsUpTo(<<"a", "a:", "b">>, TitlesRecords, MaxRecords) :
    SettledInit(SyncThree, rows, <<>>)

InitRepeated ==
  \E rows \in RowsUpTo(<<"a", "a:", "b">>, RepeatedRecords, MaxRecords) :
    \E events \in SeqsUpTo(RepeatedFlows, MaxRepeatedFlows) :
      SettledInit(SyncThree, rows, events)

NextRender == Render

SpecKeys == InitKeys /\ [][NextRender]_vars

SpecTimes == InitTimes /\ [][NextRender]_vars

SpecFlows == InitFlows /\ [][NextRender]_vars

SpecTitles == InitTitles /\ [][NextRender]_vars

SpecRepeated == InitRepeated /\ [][NextRender]_vars

----------------------------------------------------------------------------
(* The open modal: effects, fetches and the link / unlink handlers *)

MaxTicks == 1

MaxCalls == 1

SyncTwo ==
  [id |-> "s1",
   endpoints |-> <<[provider_id |-> "a", provider_name |-> "apple"],
                   [provider_id |-> "b", provider_name |-> "Google"]>>]

\* what client.syncProviderEvents may answer for a provider
EventResponses(providerId) ==
  IF providerId = "a"
    THEN {<<ProviderEventRecord("a", "o1", "t", NULL, NULL)>>,
          <<ProviderEventRecord("a", "o2", "t", NULL, NULL)>>}
    ELSE {<<ProviderEventRecord("b", "o1", "t", NULL, NULL)>>,
          <<ProviderEventRecord("b", "o2", "t", NULL, NULL)>>}

\* what client.syncEvents may answer
FlowResponses == {<<>>, <<SyncEventSummary("o1", "a", "b", NULL)>>}

TimeframeValues == {"7d", "all"}

NoOtherOrbitMessage == "No other Orbit events available to link."

SelectDifferentMessage == "Select a different Orbit event to link."

FlowFailedMessage == "Failed to load flow details"

EventsFailedMessage == "Failed to load provider events"

LinkFailedMessage == "Failed to relink provider event"

UnlinkFailedMessage == "Failed to unlink provider event"

actionKeyOf(providerId, providerEventId) == providerId \o "-" \o providerEventId

isActionLoading(type, key) == actionState.type = type /\ actionState.key = key

anyLoading == \E i \in 1..Len(providerIds) : providerEvents[providerIds[i]].loading

\* the members the table shows, each a row with its buttons
Members ==
  {groups[g].members[k] : <<g, k>> \in
     {gk \in (1..Len(groups)) \X (1..MaxRecords + 1) : gk[2] <= Len(groups[gk[1]].members)}}

availableLinkTargets(currentOrbitId) ==
  SelectSeq(orbitOptions(groups), LAMBDA id : id # currentOrbitId)

isLinking(member) ==
  /\ linkEditor # NoEditor
  /\ linkEditor.providerId = member.providerId
  /\ linkEditor.providerEventId = member.record.provider_event_id

\* the cleanup of the running loadFlows effect and its next run
flowsEffect(inFlight) ==
  {IF f.kind = "flows" THEN [f EXCEPT !.cancelled = TRUE] ELSE f : f \in inFlight}
    \cup {[kind |-> "flows", providerId |-> NULL, cancelled |-> FALSE]}

\* the cleanup of the running provider events effect and its next run
eventsEffect(inFlight) ==
  {IF f.kind = "events" THEN [f EXCEPT !.cancelled = TRUE] ELSE f : f \in inFlight}
    \cup {[kind |-> "events", providerId |-> providerIds[i], cancelled |-> FALSE] :
            i \in 1..Len(providerIds)}

loadingPanels ==
  [id \in DOMAIN providerEvents |->
     [providerEvents[id] EXCEPT !.loading = TRUE, !.error = NULL]]

\* the useMemo providerErrors: the messages of the panels, in endpoint order
providerErrors ==
  LET messages == [i \in 1..Len(providerIds) |-> providerEvents[providerIds[i]].error]
  IN  SelectSeq(messages, Truthy)

\* the useMemo combinedErrors
combinedErrors ==
  (IF Truthy(actionError) THEN <<actionError>> ELSE <<>>)
    \o (IF Truthy(flowError) THEN <<flowError>> ELSE <<>>)
    \o providerErrors

\* the state of the modal once it is mounted open and its effects have run
Init ==
  /\ sync = SyncTwo
  /\ open = TRUE
  /\ flowEvents = <<>>
  /\ flowLoading = TRUE
  /\ flowError = NULL
  /\ providerEvents = [id \in {"a", "b"} |-> [data |-> <<>>, loading |-> TRUE, error |-> NULL]]
  /\ timeframe = "7d"
  /\ refreshTick = 0
  /\ actionError = NULL
  /\ actionState = NoAction
  /\ linkEditor = NoEditor
  /\ linkTargetOrbit = ""
  /\ groups = <<>>
  /\ rendered = TRUE
  /\ fetches = {[kind |-> "flows", providerId |-> NULL, cancelled |-> FALSE],
                [kind |-> "events", providerId |-> "a", cancelled |-> FALSE],
                [kind |-> "events", providerId |-> "b", cancelled |-> FALSE]}
  /\ calls = {}
  /\ issued = 0
  /\ PageInit

\* setRefreshTick(tick + 1) and the two effects that depend on refreshTick
refreshTickAdvanced ==
  /\ refreshTick' = refreshTick + 1
  /\ flowLoading' = TRUE
  /\ flowError' = NULL
  /\ providerEvents' = loadingPanels
  /\ fetches' = eventsEffect(flowsEffect(fetches))

\* the Refresh button
Refresh ==
  /\ rendered /\ open
  /\ ~(flowLoading \/ anyLoading)
  /\ refreshTick < MaxTicks
  /\ refreshTickAdvanced
  /\ UNCHANGED <<pagevars, sync, open, rendered, flowEvents, timeframe, actionError, actionState,
                 linkEditor, linkTargetOrbit, groups, calls, issued>>

\* the Activity window select
SetTimeframe(value) ==
  /\ rendered /\ open
  /\ value # timeframe
  /\ timeframe' = value
  /\ providerEvents' = loadingPanels
  /\ fetches' = eventsEffect(fetches)
  /\ UNCHANGED <<pagevars, sync, open, rendered, flowEvents, flowLoading, flowError, refreshTick,
                 actionError, actionState, linkEditor, linkTargetOrbit, groups, calls,
                 issued>>

\* client.syncEvents resolves
LoadFlowsSucceeded(f, events) ==
  /\ rendered
  /\ f \in fetches /\ f.kind = "flows"
  /\ fetches' = fetches \ {f}
  /\ IF f.cancelled
       THEN UNCHANGED <<flowEvents, flowLoading, groups>>
       ELSE /\ flowEvents' = events
            /\ flowLoading' = FALSE
            /\ groups' = computeGroups(allRecords(providerIds, providerEvents), events)
  /\ UNCHANGED <<pagevars, sync, open, rendered, flowError, providerEvents, timeframe, refreshTick,
                 actionError, actionState, linkEditor, linkTargetOrbit, calls, issued>>

\* the catch block of loadFlows without its finally block
LoadFlowsFailedKeepsLoading(f) ==
  /\ rendered
  /\ f \in fetches /\ f.kind = "flows"
  /\ fetches' = fetches \ {f}
  /\ IF f.cancelled
       THEN UNCHANGED <<flowError>>
       ELSE flowError' = FlowFailedMessage
  /\ UNCHANGED <<pagevars, sync, open, rendered, flowEvents, flowLoading, providerEvents, timeframe,
                 refreshTick, actionError, actionState, linkEditor, linkTargetOrbit, groups,
                 calls, issued>>

\* client.syncEvents rejects
LoadFlowsFailed(f) ==
  /\ rendered
  /\ f \in fetches /\ f.kind = "flows"
  /\ fetches' = fetches \ {f}
  /\ IF f.cancelled
       THEN UNCHANGED <<flowError, flowLoading>>
       ELSE /\ flowError' = FlowFailedMessage
            /\ flowLoading' = FALSE
  /\ UNCHANGED <<pagevars, sync, open, rendered, flowEvents, providerEvents, timeframe, refreshTick,
                 actionError, actionState, linkEditor, linkTargetOrbit, groups, calls,
                 issued>>

\* a load without the cancelled flag of its effect
LoadSucceededUnguarded(f, events) ==
  /\ rendered
  /\ f \in fetches /\ f.kind = "events"
  /\ fetches' = fetches \ {f}
  /\ providerEvents' =
       [providerEvents EXCEPT
          ![f.providerId] = [data |-> events, loading |-> FALSE, error |-> NULL]]
  /\ groups' = computeGroups(allRecords(providerIds, providerEvents'), flowEvents)
  /\ UNCHANGED <<pagevars, sync, open, rendered, flowEvents, flowLoading, flowError, timeframe,
                 refreshTick, actionError, actionState, linkEditor, linkTargetOrbit, calls,
                 issued>>

\* client.syncProviderEvents resolves
LoadSucceeded(f, events) ==
  /\ rendered
  /\ f \in fetches /\ f.kind = "events"
  /\ fetches' = fetches \ {f}
  /\ IF f.cancelled
       THEN UNCHANGED <<providerEvents, groups>>
       ELSE /\ providerEvents' =
                 [providerEvents EXCEPT
                    ![f.providerId] = [data |-> events, loading |-> FALSE, error |-> NULL]]
            /\ groups' = computeGroups(allRecords(providerIds, providerEvents'), flowEvents)
  /\ UNCHANGED <<pagevars, sync, open, rendered, flowEvents, flowLoading, flowError, timeframe,
                 refreshTick, actionError, actionState, linkEditor, linkTargetOrbit, calls,
                 issued>>

\* a load whose failure is stored on the panel of every provider
LoadFailedAbortsAll(f) ==
  /\ rendered
  /\ f \in fetches /\ f.kind = "events"
  /\ fetches' = fetches \ {f}
  /\ IF f.cancelled
       THEN UNCHANGED <<providerEvents>>
       ELSE /\ providerEvents' =
                 [id \in DOMAIN providerEvents |->
                    [data |-> providerEvents[id].data, loading |-> FALSE,
                     error |-> EventsFailedMessage]]
  /\ UNCHANGED <<pagevars, sync, open, rendered, flowEvents, flowLoading, flowError, timeframe,
                 refreshTick, actionError, actionState, linkEditor, linkTargetOrbit, groups,
                 calls, issued>>

\* a load whose failure leaves no message on the panel
LoadFailedSilent(f) ==
  /\ rendered
  /\ f \in fetches /\ f.kind = "events"
  /\ fetches' = fetches \ {f}
  /\ IF f.cancelled
       THEN UNCHANGED <<providerEvents>>
       ELSE /\ providerEvents' =
                 [providerEvents EXCEPT
                    ![f.providerId] = [data |-> @.data, loading |-> FALSE, error |-> NULL]]
  /\ UNCHANGED <<pagevars, sync, open, rendered, flowEvents, flowLoading, flowError, timeframe,
                 refreshTick, actionError, actionState, linkEditor, linkTargetOrbit, groups,
                 calls, issued>>

\* client.syncProviderEvents rejects
LoadFailed(f) ==
  /\ rendered
  /\ f \in fetches /\ f.kind = "events"
  /\ fetches' = fetches \ {f}
  /\ IF f.cancelled
       THEN UNCHANGED <<providerEvents>>
       ELSE /\ providerEvents' =
                 [providerEvents EXCEPT
                    ![f.providerId] = [data |-> @.data, loading |-> FALSE,
                                       error |-> EventsFailedMessage]]
  /\ UNCHANGED <<pagevars, sync, open, rendered, flowEvents, flowLoading, flowError, timeframe,
                 refreshTick, actionError, actionState, linkEditor, linkTargetOrbit, groups,
                 calls, issued>>

\* the Link / Relink button of a row
startLink(member) ==
  /\ rendered /\ open
  /\ member \in Members
  /\ Len(availableLinkTargets(member.record.orbit_event_id)) # 0
  /\ ~isActionLoading("link", actionKeyOf(member.providerId, member.record.provider_event_id))
  /\ LET options == availableLinkTargets(member.record.orbit_event_id)
     IN  IF Len(options) = 0
           THEN /\ actionError' = NoOtherOrbitMessage
                /\ UNCHANGED <<linkEditor, linkTargetOrbit>>
           ELSE /\ actionError' = NULL
                /\ linkEditor' = [providerId |-> member.providerId,
                                  providerEventId |-> member.record.provider_event_id,
                                  currentOrbitId |-> member.record.orbit_event_id]
                /\ linkTargetOrbit' = options[1]
  /\ UNCHANGED <<pagevars, sync, open, rendered, flowEvents, flowLoading, flowError, providerEvents,
                 timeframe, refreshTick, actionState, groups, fetches, calls, issued>>

\* the select of the link editor, as a row that is being linked shows it
selectLinkTarget(member, id) ==
  /\ rendered /\ open
  /\ member \in Members
  /\ isLinking(member)
  /\ id \in Range(availableLinkTargets(member.record.orbit_event_id))
  /\ id # linkTargetOrbit
  /\ linkTargetOrbit' = id
  /\ UNCHANGED <<pagevars, sync, open, rendered, flowEvents, flowLoading, flowError, providerEvents,
                 timeframe, refreshTick, actionError, actionState, linkEditor, groups,
                 fetches, calls, issued>>

\* the Cancel button of the link editor
cancelLink ==
  /\ rendered /\ open
  /\ \E member \in Members : isLinking(member)
  /\ linkEditor' = NoEditor
  /\ linkTargetOrbit' = ""
  /\ UNCHANGED <<pagevars, sync, open, rendered, flowEvents, flowLoading, flowError, providerEvents,
                 timeframe, refreshTick, actionError, actionState, groups, fetches, calls,
                 issued>>

\* the Save button of the link editor: submitLink up to its await
submitLink ==
  /\ rendered /\ open
  /\ \E member \in Members :
       /\ isLinking(member)
       /\ ~isActionLoading("link",
                           actionKeyOf(member.providerId, member.record.provider_event_id))
  /\ IF linkEditor = NoEditor
       THEN UNCHANGED <<actionError, actionState, calls, issued>>
       ELSE IF ~Truthy(linkTargetOrbit) \/ linkTargetOrbit = linkEditor.currentOrbitId
         THEN /\ actionError' = SelectDifferentMessage
              /\ UNCHANGED <<actionState, calls, issued>>
         ELSE /\ actionState' = [type |-> "link",
                                 key |-> actionKeyOf(linkEditor.providerId,
                                                     linkEditor.providerEventId)]
              /\ actionError' = NULL
              /\ issued' = issued + 1
              /\ calls' = calls \cup
                             {[id |-> issued + 1, type |-> "link",
                               providerId |-> linkEditor.providerId,
                               providerEventId |-> linkEditor.providerEventId,
                               target |-> linkTargetOrbit, editor |-> linkEditor]}
  /\ UNCHANGED <<pagevars, sync, open, rendered, flowEvents, flowLoading, flowError, providerEvents,
                 timeframe, refreshTick, linkEditor, linkTargetOrbit, groups, fetches>>

\* client.linkProviderEvent resolves: the rest of the try block and the finally block
linkSucceeded(c) ==
  /\ rendered
  /\ c \in calls /\ c.type = "link"
  /\ calls' = calls \ {c}
  /\ linkEditor' = NoEditor
  /\ linkTargetOrbit' = ""
  /\ refreshTickAdvanced
  /\ actionState' = NoAction
  /\ UNCHANGED <<pagevars, sync, open, rendered, flowEvents, timeframe, actionError, groups, issued>>

\* the catch block without the finally block
linkFailedStaysPending(c) ==
  /\ rendered
  /\ c \in calls /\ c.type = "link"
  /\ calls' = calls \ {c}
  /\ actionError' = LinkFailedMessage
  /\ UNCHANGED <<pagevars, sync, open, rendered, flowEvents, flowLoading, flowError, providerEvents,
                 timeframe, refreshTick, actionState, linkEditor, linkTargetOrbit, groups,
                 fetches, issued>>

\* client.linkProviderEvent rejects: the catch block and the finally block
linkFailed(c) ==
  /\ rendered
  /\ c \in calls /\ c.type = "link"
  /\ calls' = calls \ {c}
  /\ actionError' = LinkFailedMessage
  /\ actionState' = NoAction
  /\ UNCHANGED <<pagevars, sync, open, rendered, flowEvents, flowLoading, flowError, providerEvents,
                 timeframe, refreshTick, linkEditor, linkTargetOrbit, groups, fetches,
                 issued>>

\* the Unlink button of a row: unlinkProviderEvent up to its await
unlinkProviderEvent(member) ==
  /\ rendered /\ open
  /\ member \in Members
  /\ Truthy(member.record.orbit_event_id)
  /\ ~isActionLoading("unlink",
                      actionKeyOf(member.providerId, member.record.provider_event_id))
  /\ actionState' = [type |-> "unlink",
                     key |-> actionKeyOf(member.providerId, member.record.provider_event_id)]
  /\ actionError' = NULL
  /\ issued' = issued + 1
  /\ calls' = calls \cup
                 {[id |-> issued + 1, type |-> "unlink", providerId |-> member.providerId,
                   providerEventId |-> member.record.provider_event_id,
                   target |-> NULL, editor |-> linkEditor]}
  /\ UNCHANGED <<pagevars, sync, open, rendered, flowEvents, flowLoading, flowError, providerEvents,
                 timeframe, refreshTick, linkEditor, linkTargetOrbit, groups, fetches>>

\* an unlink that drops the records of the provider at once instead of waiting for the fetch
unlinkSucceededOptimistic(c) ==
  /\ rendered
  /\ c \in calls /\ c.type = "unlink"
  /\ calls' = calls \ {c}
  /\ refreshTick' = refreshTick + 1
  /\ flowLoading' = TRUE
  /\ flowError' = NULL
  /\ providerEvents' = [loadingPanels EXCEPT ![c.providerId].data = <<>>]
  /\ groups' = computeGroups(allRecords(providerIds, providerEvents'), flowEvents)
  /\ fetches' = eventsEffect(flowsEffect(fetches))
  /\ actionState' = NoAction
  /\ UNCHANGED <<pagevars, sync, open, rendered, flowEvents, timeframe, actionError, linkEditor,
                 linkTargetOrbit, issued>>

\* client.unlinkProviderEvent resolves; linkEditor is the one of the render of the click
unlinkSucceeded(c) ==
  /\ rendered
  /\ c \in calls /\ c.type = "unlink"
  /\ calls' = calls \ {c}
  /\ IF /\ c.editor # NoEditor
        /\ c.editor.providerId = c.providerId
        /\ c.editor.providerEventId = c.providerEventId
       THEN linkEditor' = NoEditor /\ linkTargetOrbit' = ""
       ELSE UNCHANGED <<linkEditor, linkTargetOrbit>>
  /\ refreshTickAdvanced
  /\ actionState' = NoAction
  /\ UNCHANGED <<pagevars, sync, open, rendered, flowEvents, timeframe, actionError, groups, issued>>

\* client.unlinkProviderEvent rejects
unlinkFailed(c) ==
  /\ rendered
  /\ c \in calls /\ c.type = "unlink"
  /\ calls' = calls \ {c}
  /\ actionError' = UnlinkFailedMessage
  /\ actionState' = NoAction
  /\ UNCHANGED <<pagevars, sync, open, rendered, flowEvents, flowLoading, flowError, providerEvents,
                 timeframe, refreshTick, linkEditor, linkTargetOrbit, groups, fetches,
                 issued>>

Next ==
  \/ Refresh
  \/ \E value \in TimeframeValues : SetTimeframe(value)
  \/ \E f \in fetches : \E events \in FlowResponses : LoadFlowsSucceeded(f, events)
  \/ \E f \in fetches : LoadFlowsFailed(f)
  \/ \E f \in fetches : \E events \in EventResponses(f.providerId) : LoadSucceeded(f, events)
  \/ \E f \in fetches : LoadFailed(f)
  \/ \E member \in Members : startLink(member)
  \/ \E member \in Members : \E id \in Range(orbitOptions(groups)) : selectLinkTarget(member, id)
  \/ cancelLink
  \/ submitLink /\ issued' <= MaxCalls
  \/ \E c \in calls : linkSucceeded(c)
  \/ \E c \in calls : linkFailed(c)
  \/ \E member \in Members : unlinkProviderEvent(member) /\ issued' <= MaxCalls
  \/ \E c \in calls : unlinkSucceeded(c)
  \/ \E c \in calls : unlinkFailed(c)

Spec == Init /\ [][Next]_vars

\* the modal while every fetch is answered and the activity window is left alone
NextLink ==
  \/ Refresh
  \/ \E f \in fetches : \E events \in FlowResponses : LoadFlowsSucceeded(f, events)
  \/ \E f \in fetches : \E events \in EventResponses(f.providerId) : LoadSucceeded(f, events)
  \/ \E member \in Members : startLink(member)
  \/ \E member \in Members : \E id \in Range(orbitOptions(groups)) : selectLinkTarget(member, id)
  \/ cancelLink
  \/ submitLink /\ issued' <= MaxCalls
  \/ \E c \in calls : linkSucceeded(c)
  \/ \E c \in calls : linkFailed(c)
  \/ \E member \in Members : unlinkProviderEvent(member) /\ issued' <= MaxCalls
  \/ \E c \in calls : unlinkSucceeded(c)
  \/ \E c \in calls : unlinkFailed(c)

SpecLink == Init /\ [][NextLink]_vars

\* the modal while no link or unlink is attempted: fetches answer, fail and are superseded
NextFetch ==
  \/ Refresh
  \/ \E value \in TimeframeValues : SetTimeframe(value)
  \/ \E f \in fetches : \E events \in FlowResponses : LoadFlowsSucceeded(f, events)
  \/ \E f \in fetches : LoadFlowsFailed(f)
  \/ \E f \in fetches : \E events \in EventResponses(f.providerId) : LoadSucceeded(f, events)
  \/ \E f \in fetches : LoadFailed(f)

SpecFetch == Init /\ [][NextFetch]_vars

\* the requests the two effects can have in flight
FetchRecords ==
  {[kind |-> "flows", providerId |-> NULL, cancelled |-> c] : c \in BOOLEAN}
    \cup {[kind |-> "events", providerId |-> id, cancelled |-> c] :
            id \in {"a", "b"}, c \in BOOLEAN}

\* the request is answered, with a result or with an error
SettleFetch(f) ==
  \/ LoadFlowsFailed(f)
  \/ LoadFailed(f)
  \/ \E events \in FlowResponses : LoadFlowsSucceeded(f, events)
  \/ \E events \in EventResponses(f.providerId) : LoadSucceeded(f, events)

\* the client answers every request: no promise of a fetch stays pending for ever
SpecFetchLive ==
  /\ Init /\ [][NextFetch]_vars
  /\ \A f \in FetchRecords : WF_vars(SettleFetch(f))

\* the modal while fetches fail and an unlink is attempted: every source of an error message
NextErrors ==
  \/ Refresh
  \/ \E f \in fetches : \E events \in FlowResponses : LoadFlowsSucceeded(f, events)
  \/ \E f \in fetches : LoadFlowsFailed(f)
  \/ \E f \in fetches : \E events \in EventResponses(f.providerId) : LoadSucceeded(f, events)
  \/ \E f \in fetches : LoadFailed(f)
  \/ \E member \in Members : unlinkProviderEvent(member) /\ issued' <= MaxCalls
  \/ \E c \in calls : unlinkSucceeded(c)
  \/ \E c \in calls : unlinkFailed(c)

SpecErrors == Init /\ [][NextErrors]_vars

MaxUnlinks == 3

\* the modal with a settled snapshot, on which unlink operations overlap
InitUnlink ==
  \E da \in EventResponses("a") : \E db \in EventResponses("b") :
    \E events \in FlowResponses :
      SettledInit(SyncTwo, <<<<1, da[1]>>, <<2, db[1]>>>>, events)

NextUnlink ==
  \/ Render
  \/ \E f \in fetches : \E events \in FlowResponses : LoadFlowsSucceeded(f, events)
  \/ \E f \in fetches : \E events \in EventResponses(f.providerId) : LoadSucceeded(f, events)
  \/ \E member \in Members : unlinkProviderEvent(member) /\ issued' <= MaxUnlinks
  \/ \E c \in calls : unlinkSucceeded(c)
  \/ \E c \in calls : unlinkFailed(c)

SpecUnlink == InitUnlink /\ [][NextUnlink]_vars

----------------------------------------------------------------------------
(* The troubleshooting page (ui2): confirm and recreate *)

\* the mapping segments the page can show: with and without a provider UID, with and
\* without a mapping identifier
Segments ==
  {[providerId |-> "a", providerLabel |-> "A", providerUid |-> uid, mappingId |-> m] :
     uid \in {"", "u1"}, m \in {"", "m1"}}

\* MappingDetailView without a selected segment: the mapping has no segments
NoSegment == [providerId |-> NULL, providerLabel |-> NULL, providerUid |-> NULL,
              mappingId |-> NULL]

\* what selectedSegment of MappingDetailView can be
SelectedSegments == Segments \cup {NoSegment}

\* the provider event details the page can show
Details ==
  {[providerId |-> "a", providerName |-> "A", providerEventId |-> e, mappingId |-> m] :
     e \in {"", "e1"}, m \in {"", "m1"}}

\* response.operation_id of a confirm or recreate response
OperationIds == {NULL, "op1"}

\* what a rejected request throws: an Error with a message, or something that is no Error
Rejections == {[isError |-> TRUE, message |-> "HTTP 500"], [isError |-> FALSE, message |-> NULL]}

resolveErrorMessage(error) ==
  IF error.isError THEN error.message ELSE "Unexpected error occurred"

\* actionState?.type === type && actionState.target === target
isPageBusy(type, target) == pageActionState.type = type /\ pageActionState.target = target

confirmMappingTarget(segment) ==
  IF segment = NoSegment THEN ""
  ELSE IF Truthy(segment.mappingId)
    THEN segment.mappingId
    ELSE segment.providerId \o ":" \o segment.providerUid

confirmProviderEventTarget(detail) ==
  IF Truthy(detail.providerEventId)
    THEN detail.providerEventId
    ELSE IF Truthy(detail.mappingId) THEN detail.mappingId ELSE detail.providerId

\* the part of a handler up to its await: the request is handed to the client
pageRequest(type, target, label) ==
  /\ pageActionState' = [type |-> type, target |-> target]
  /\ actionFeedback' = NoFeedback
  /\ pageIssued' = pageIssued + 1
  /\ pageCalls' = pageCalls \cup {[id |-> pageIssued + 1, type |-> type, target |-> target,
                                  label |-> label]}
  /\ UNCHANGED scopeRefreshes

\* an early return of a handler: only the feedback is set
pageRefusal(message) ==
  /\ actionFeedback' = [tone |-> "error", message |-> message]
  /\ UNCHANGED <<pageActionState, scopeRefreshes, pageCalls, pageIssued>>

\* onConfirm of a mapping segment
handleConfirmMapping(segment) ==
  /\ IF ~Truthy(segment.providerUid)
       THEN pageRefusal("Missing provider UID for this segment.")
       ELSE pageRequest("confirm-mapping", confirmMappingTarget(segment), segment.providerLabel)
  /\ UNCHANGED modalvars

\* onRecreate of a mapping segment
handleRecreateMapping(segment) ==
  /\ IF ~Truthy(segment.mappingId)
       THEN pageRefusal("Provider mapping identifier is unavailable.")
       ELSE pageRequest("recreate-mapping", segment.mappingId, segment.providerLabel)
  /\ UNCHANGED modalvars

\* onConfirm of a provider event
handleConfirmProviderEvent(detail) ==
  /\ IF ~Truthy(detail.providerEventId)
       THEN pageRefusal("Provider event ID missing; unable to confirm.")
       ELSE pageRequest("confirm-provider-event", confirmProviderEventTarget(detail),
                        detail.providerName)
  /\ UNCHANGED modalvars

\* onRecreate of a provider event
handleRecreateProviderEvent(detail) ==
  /\ IF ~Truthy(detail.mappingId)
       THEN pageRefusal("No mapping associated with this provider event.")
       ELSE pageRequest("recreate-provider-event", detail.mappingId, detail.providerName)
  /\ UNCHANGED modalvars

\* MappingDetailView, of the selected segment: confirmDisabled without the look at actionState
mappingConfirmDisabledNeverBusy(segment) ==
  segment = NoSegment \/ ~Truthy(segment.providerUid)

\* MappingDetailView, of the selected segment
mappingConfirmDisabled(segment) ==
  \/ segment = NoSegment
  \/ ~Truthy(segment.providerUid)
  \/ isPageBusy("confirm-mapping", confirmMappingTarget(segment))

mappingRecreateDisabled(segment) ==
  \/ segment = NoSegment
  \/ ~Truthy(segment.mappingId)
  \/ isPageBusy("recreate-mapping", segment.mappingId)

\* ProviderEventDetailView
eventConfirmDisabled(detail) ==
  \/ ~Truthy(detail.providerEventId)
  \/ isPageBusy("confirm-provider-event", confirmProviderEventTarget(detail))

eventRecreateDisabled(detail) ==
  \/ ~Truthy(detail.mappingId)
  \/ isPageBusy("recreate-provider-event", detail.mappingId)

\* a click on "Confirm provider state": handleConfirm of MappingDetailView
mappingHandleConfirm(segment) ==
  /\ ~mappingConfirmDisabled(segment)
  /\ handleConfirmMapping(segment)

\* a click on "Replay to provider": handleRecreate of MappingDetailView
mappingHandleRecreate(segment) ==
  /\ ~mappingRecreateDisabled(segment)
  /\ handleRecreateMapping(segment)

\* a click on "Confirm presence": handleConfirm of ProviderEventDetailView
eventHandleConfirm(detail) ==
  /\ ~eventConfirmDisabled(detail)
  /\ handleConfirmProviderEvent(detail)

\* a click on "Recreate from Orbit": handleRecreate of ProviderEventDetailView
eventHandleRecreate(detail) ==
  /\ ~eventRecreateDisabled(detail)
  /\ handleRecreateProviderEvent(detail)

\* the success message of the four handlers
successMessage(type, label, operation_id) ==
  CASE type = "confirm-mapping" ->
         IF Truthy(operation_id)
           THEN "Confirmation queued (operation " \o operation_id \o ")."
           ELSE "Provider " \o label \o " confirmed."
    [] type = "recreate-mapping" ->
         IF Truthy(operation_id)
           THEN "Recreate queued (operation " \o operation_id \o ")."
           ELSE "Event recreated on " \o label \o "."
    [] type = "confirm-provider-event" ->
         IF Truthy(operation_id)
           THEN "Confirmation queued (operation " \o operation_id \o ")."
           ELSE "Provider " \o label \o " confirmed."
    [] type = "recreate-provider-event" ->
         IF Truthy(operation_id)
           THEN "Recreate queued (operation " \o operation_id \o ")."
           ELSE "Event recreated for " \o label \o "."

\* the request resolves: the rest of the try block, then finally
pageSucceeded(c, operation_id) ==
  /\ c \in pageCalls
  /\ pageCalls' = pageCalls \ {c}
  /\ actionFeedback' = [tone |-> "success", message |-> successMessage(c.type, c.label, operation_id)]
  /\ scopeRefreshes' = scopeRefreshes + 1
  /\ pageActionState' = NoPageAction
  /\ UNCHANGED pageIssued
  /\ UNCHANGED modalvars

\* the request rejects: the catch block, then finally
pageFailed(c, error) ==
  /\ c \in pageCalls
  /\ pageCalls' = pageCalls \ {c}
  /\ actionFeedback' = [tone |-> "error", message |-> resolveErrorMessage(error)]
  /\ pageActionState' = NoPageAction
  /\ UNCHANGED <<scopeRefreshes, pageIssued>>
  /\ UNCHANGED modalvars

\* the number of confirm / recreate requests a behaviour issues
MaxPageCalls == 3

NextPage ==
  \/ \E segment \in SelectedSegments :
       mappingHandleConfirm(segment) /\ pageIssued' <= MaxPageCalls
  \/ \E segment \in SelectedSegments :
       mappingHandleRecreate(segment) /\ pageIssued' <= MaxPageCalls
  \/ \E detail \in Details : eventHandleConfirm(detail) /\ pageIssued' <= MaxPageCalls
  \/ \E detail \in Details : eventHandleRecreate(detail) /\ pageIssued' <= MaxPageCalls
  \/ \E c \in pageCalls : \E operation_id \in OperationIds : pageSucceeded(c, operation_id)
  \/ \E c \in pageCalls : \E error \in Rejections : pageFailed(c, error)

SpecPage == Init /\ [][NextPage]_vars

----------------------------------------------------------------------------
(* What the claims speak of *)

\* the snapshot the groups of the current state are computed from
Rows == allRecords(providerIds, providerEvents)

HasCanonicalId(record) == Truthy(record.orbit_event_id)

\* <<g, k>>: the k-th member of the g-th group
MemberSlots ==
  {<<g, k>> \in (1..Len(groups)) \X (1..MaxRecords + 1) : k <= Len(groups[g].members)}

MemberAt(slot) == groups[slot[1]].members[slot[2]]

IsRow(m, row) == m.providerId = row.providerId /\ m.record = row.record

SamePair(p1, r1, p2, r2) == p1 = p2 /\ r1.provider_event_id = r2.provider_event_id

\* the groups that hold the row
GroupsOfRow(row) ==
  {g \in 1..Len(groups) : \E k \in 1..Len(groups[g].members) : IsRow(groups[g].members[k], row)}

\* the providers that report a record with canonical id c
ProvidersOf(c) ==
  {Rows[i].providerId : i \in {j \in 1..Len(Rows) : Rows[j].record.orbit_event_id = c}}

\* C1: every record of the snapshot is a member of exactly one group: the members of all
\* groups are the records of the snapshot, each as often as the snapshot holds it.
C1_EveryRecordInExactlyOneGroup ==
  rendered =>
    /\ Cardinality(MemberSlots) = Len(Rows)
    /\ \A i \in 1..Len(Rows) :
         /\ Cardinality(GroupsOfRow(Rows[i])) = 1
         /\ Cardinality({slot \in MemberSlots : IsRow(MemberAt(slot), Rows[i])})
              = Cardinality({j \in 1..Len(Rows) : Rows[j] = Rows[i]})

C1_Witness ==
  /\ rendered
  /\ Len(Rows) = 3
  /\ Rows[1] = Rows[2]
  /\ Len(groups) = 2

\* C2: two records are in the same group exactly if they carry the same canonical id, or
\* both carry none and have the same (providerId, providerEventId); the synthetic key of
\* an unlinked record equals no canonical id and no synthetic key of another pair.
\* A canonical id is present here as groupKey reads it: it is not null.
C2_SameGroupIffSameIdentity ==
  rendered =>
    \A i, j \in 1..Len(Rows) :
      (GroupsOfRow(Rows[i]) = GroupsOfRow(Rows[j]))
        <=> \/ /\ Rows[i].record.orbit_event_id # NULL
               /\ Rows[j].record.orbit_event_id # NULL
               /\ Rows[i].record.orbit_event_id = Rows[j].record.orbit_event_id
            \/ /\ Rows[i].record.orbit_event_id = NULL
               /\ Rows[j].record.orbit_event_id = NULL
               /\ SamePair(Rows[i].providerId, Rows[i].record,
                           Rows[j].providerId, Rows[j].record)

\* C3: the duplicateCount of a member is the number of records of the snapshot with the
\* member's (providerId, providerEventId).
C3_DuplicateCountIsLiteralCount ==
  rendered =>
    \A slot \in MemberSlots :
      MemberAt(slot).duplicateCount
        = Cardinality({i \in 1..Len(Rows) :
                         SamePair(Rows[i].providerId, Rows[i].record,
                                  MemberAt(slot).providerId, MemberAt(slot).record)})

\* C4: the orbitLinkCount of a member with canonical id c is the number of distinct
\* providers that report a record with canonical id c, and 0 for a member without one.
C4_OrbitLinkCountIsDistinctProviders ==
  rendered =>
    \A slot \in MemberSlots :
      LET m == MemberAt(slot)
      IN  m.orbitLinkCount
            = IF HasCanonicalId(m.record)
                THEN Cardinality(ProvidersOf(m.record.orbit_event_id))
                ELSE 0

C4_Witness ==
  /\ rendered
  /\ \E slot \in MemberSlots :
       /\ MemberAt(slot).orbitLinkCount = 2
       /\ Len(groups[slot[1]].members) = 3

\* C5: a group is a suspected collision exactly if it has more than one member or one of
\* its members has a duplicateCount above 1.
C5_SuspectCollisionIff ==
  rendered =>
    \A g \in 1..Len(groups) :
      groups[g].suspectCollision
        <=> \/ Len(groups[g].members) > 1
            \/ \E k \in 1..Len(groups[g].members) : groups[g].members[k].duplicateCount > 1

C5_Witness ==
  /\ rendered
  /\ \E g \in 1..Len(groups) : groups[g].suspectCollision /\ Len(groups[g].members) = 1
  /\ \E g \in 1..Len(groups) : ~groups[g].suspectCollision

\* the place in the snapshot of the first record of the group
FirstSeen(g) ==
  LET mine == {i \in 1..Len(Rows) : groupKey(Rows[i].providerId, Rows[i].record) = groups[g].key}
  IN  CHOOSE i \in mine : \A j \in mine : i <= j

\* C6: suspected collisions come first; within the collisions and within the others the
\* latestTimestamp does not increase; groups of one part with equal latestTimestamp are
\* in the order in which the snapshot first shows them.
C6_GroupOrder ==
  rendered =>
    \A g, h \in 1..Len(groups) :
      g < h =>
        /\ groups[h].suspectCollision => groups[g].suspectCollision
        /\ groups[g].suspectCollision = groups[h].suspectCollision
             => /\ groups[g].latestTimestamp >= groups[h].latestTimestamp
                /\ groups[g].latestTimestamp = groups[h].latestTimestamp
                     => FirstSeen(g) < FirstSeen(h)

C6_Witness ==
  /\ rendered
  /\ Len(groups) = 3
  /\ groups[1].suspectCollision
  /\ groups[2].suspectCollision
  /\ ~groups[3].suspectCollision
  /\ groups[1].latestTimestamp = groups[2].latestTimestamp
  /\ groups[2].latestTimestamp < groups[3].latestTimestamp

\* the time a timestamp field states: none when it is missing or does not parse
StatedTimes(value) ==
  IF Truthy(value) /\ ~DateParse(value).nan THEN {DateParse(value).ms} ELSE {}

\* the times the members of the group and the flow of its canonical id state
GroupTimes(g) ==
  UNION {StatedTimes(groups[g].members[k].record.last_updated)
           \cup StatedTimes(groups[g].members[k].record.start) :
         k \in 1..Len(groups[g].members)}
    \cup (IF Truthy(groups[g].orbitEventId)
            THEN StatedTimes(flowByOrbit(flowEvents, groups[g].orbitEventId).occurred_at)
            ELSE {})

\* C7: the latestTimestamp of a group is the maximum of the lastUpdatedAt and startAt of
\* its members and the occurredAt of the flow of its canonical id.
C7_LatestIsMaxOfTimes ==
  rendered =>
    \A g \in 1..Len(groups) :
      GroupTimes(g) # {} => groups[g].latestTimestamp = MathMax(GroupTimes(g))

\* the label and counterpart the direction rule gives a member; sourceFirst says whether
\* a provider that is the source and the target of the flow is only held to be Outbound
DirectionRule(m, sourceFirst) ==
  LET flow == IF HasCanonicalId(m.record)
                THEN flowByOrbit(flowEvents, m.record.orbit_event_id) ELSE NoFlow
      isSource == m.providerId = flow.source_provider_id
      isTarget == m.providerId = flow.target_provider_id
      outbound == /\ m.directionLabel = "Outbound"
                  /\ m.counterpartName = IF Truthy(flow.target_provider_id)
                                           THEN counterpartNameOf(flow.target_provider_id)
                                           ELSE NULL
      inbound == /\ m.directionLabel = "Inbound"
                 /\ m.counterpartName = IF Truthy(flow.source_provider_id)
                                          THEN counterpartNameOf(flow.source_provider_id)
                                          ELSE NULL
      unmapped == m.directionLabel = "Unmapped" /\ m.counterpartName = NULL
  IN  /\ flow = NoFlow => unmapped
      /\ flow # NoFlow /\ isSource /\ ~isTarget => outbound
      /\ flow # NoFlow /\ isTarget /\ ~isSource => inbound
      /\ flow # NoFlow /\ isSource /\ isTarget => outbound /\ (sourceFirst \/ inbound)
      /\ flow # NoFlow /\ ~isSource /\ ~isTarget => unmapped

EveryRowIsAMember == \A i \in 1..Len(Rows) : GroupsOfRow(Rows[i]) # {}

C9_SharedCanonicalIdIsOneGroup ==
  rendered =>
    \A i \in 1..Len(Rows) :
      LET c == Rows[i].record.orbit_event_id
          holding == {g \in 1..Len(groups) :
                        \E k \in 1..Len(groups[g].members) :
                          groups[g].members[k].record.orbit_event_id = c}
      IN  HasCanonicalId(Rows[i].record) /\ Cardinality(ProvidersOf(c)) >= 2
            => /\ Cardinality(holding) = 1
               /\ \A g \in holding :
                    /\ groups[g].providerCount = Cardinality(ProvidersOf(c))
                    /\ groups[g].suspectCollision

\* the rows of the snapshot that are the record the link editor is open for
linkEditorRows ==
  {i \in 1..Len(Rows) :
     /\ Rows[i].providerId = linkEditor.providerId
     /\ Rows[i].record.provider_event_id = linkEditor.providerEventId}

\* the cases in which a link is to fail fast: the selected target is empty, it is the
\* canonical id the record has in the snapshot, or the groups hold no other canonical id
LinkMustFailFast ==
  /\ linkEditor # NoEditor
  /\ linkEditorRows # {}
  /\ \/ ~Truthy(linkTargetOrbit)
     \/ \A i \in linkEditorRows : Rows[i].record.orbit_event_id = linkTargetOrbit
     \/ \A i \in linkEditorRows :
          availableLinkTargets(Rows[i].record.orbit_event_id) = <<>>

\* C10: link fails fast: a submit whose selected target is empty or is the record's
\* current canonical id, or that finds no other canonical id among the groups, issues no
\* link request, surfaces a validation message and leaves the action state Idle.
C10_LinkFailsFast ==
  [][(LinkMustFailFast /\ submitLink) =>
       /\ calls' = calls
       /\ issued' = issued
       /\ actionError' \in {SelectDifferentMessage, NoOtherOrbitMessage}
       /\ actionState' = NoAction]_vars

----------------------------------------------------------------------------
(* The operations in flight *)

\* the requests of the type that are in flight for the pair
InFlight(type, providerId, providerEventId) ==
  {c \in calls : /\ c.type = type
                 /\ c.providerId = providerId
                 /\ c.providerEventId = providerEventId}

\* the pairs the rows of the table stand for
Pairs == {<<m.providerId, m.record.provider_event_id>> : m \in Members}

\* C11: while an unlink for a pair is in flight a second unlink for the pair is a no-op:
\* at no time are two unlink requests for one (providerId, providerEventId) in flight.
C11_OneUnlinkInFlightPerKey ==
  \A c1, c2 \in calls :
    (/\ c1.type = "unlink" /\ c2.type = "unlink"
     /\ c1.providerId = c2.providerId
     /\ c1.providerEventId = c2.providerEventId) => c1 = c2

\* the pairs of the table and of the requests in flight
KnownPairs == Pairs \cup {<<c.providerId, c.providerEventId>> : c \in calls}

\* C12: busy status is per key: isActionLoading(type, K) is true exactly while an
\* operation of the type for K is in flight, whatever starts or settles on other keys.
C12_BusyExactlyWhileInFlight ==
  rendered =>
    \A type \in {"link", "unlink"} : \A pair \in KnownPairs :
      isActionLoading(type, actionKeyOf(pair[1], pair[2]))
        <=> InFlight(type, pair[1], pair[2]) # {}

\* a step in which a link or unlink request settles
Settles == issued' = issued /\ calls' # calls

\* the fetches of the running effects: one for the flows and one for every provider
LiveFetches ==
  {[kind |-> "flows", providerId |-> NULL, cancelled |-> FALSE]}
    \cup {[kind |-> "events", providerId |-> providerIds[i], cancelled |-> FALSE] :
            i \in 1..Len(providerIds)}

\* C13: when a link or unlink request settles, with success or with failure, refreshTick
\* is advanced and the flows and the events of every provider are fetched again.
C13_SettleSchedulesRefetch ==
  [][Settles =>
       /\ refreshTick' = refreshTick + 1
       /\ LiveFetches \subseteq fetches'
       /\ flowLoading'
       /\ \A i \in 1..Len(providerIds) : providerEvents'[providerIds[i]].loading]_vars

\* a step in which a link or unlink request is issued
Issues == issued' = issued + 1

\* the request a step issues or settles
Issued == CHOOSE c \in calls' : c \notin calls

Settled == CHOOSE c \in calls : c \notin calls'

\* C14: per key the action state goes Idle -> Pending -> Idle: the step that issues a
\* request makes its key Pending, the step in which a request settles, with success or
\* with failure, leaves no key Pending, and a failure surfaces its message. The request
\* that settles without advancing refreshTick is the one that failed.
C14_IdlePendingIdle ==
  [][/\ Issues =>
          actionState' = [type |-> Issued.type,
                          key |-> actionKeyOf(Issued.providerId, Issued.providerEventId)]
     /\ Settles =>
          /\ actionState' = NoAction
          /\ (refreshTick' = refreshTick) =>
               actionError' = IF Settled.type = "link"
                                THEN LinkFailedMessage ELSE UnlinkFailedMessage]_vars

\* a request was issued, has failed and its message is shown, with no key Pending
C14_Witness ==
  /\ issued = 1
  /\ calls = {}
  /\ actionState = NoAction
  /\ actionError = LinkFailedMessage

\* the records stored for every provider
StoredRecords == [id \in DOMAIN providerEvents |-> providerEvents[id].data]

\* C15: no step of a link or unlink operation, at issue, on success or on failure, changes
\* the stored provider event records or the group list.
C15_OperationsKeepRecordsAndGroups ==
  [][(Issues \/ Settles) =>
       /\ StoredRecords' = StoredRecords
       /\ groups' = groups]_vars

\* a request has succeeded and the table still shows the records it was issued on
C15_Witness ==
  /\ issued = 1
  /\ calls = {}
  /\ refreshTick = 1
  /\ actionError = NULL
  /\ anyLoading
  /\ Len(Rows) = 2
  /\ Len(groups) > 0

\* C16: the Unlink control of a row issues its request exactly if the record has a
\* canonical id and no unlink for its pair is in flight.
C16_UnlinkIffCanonicalId ==
  rendered =>
    \A member \in Members :
      ENABLED unlinkProviderEvent(member)
        <=> /\ HasCanonicalId(member.record)
            /\ InFlight("unlink", member.providerId, member.record.provider_event_id) = {}

----------------------------------------------------------------------------
(* The fetches of a refresh generation *)

\* the step in which the fetch completes, with a result or with an error
Completes(f) == f \in fetches /\ fetches' = fetches \ {f}

\* C18: a flow fetch or provider events fetch that was superseded before it completes
\* writes neither its result nor its error: the stored flows, panels and groups are those
\* of before.
C18_SupersededFetchWritesNothing ==
  [][\A f \in fetches :
       (f.cancelled /\ Completes(f)) =>
         UNCHANGED <<flowEvents, flowLoading, flowError, providerEvents, groups>>]_vars

\* a superseded provider events fetch is still in flight after the fetch of the current
\* generation has stored its result for that provider
C18_Witness ==
  \E f \in fetches :
    /\ f.cancelled
    /\ f.kind = "events"
    /\ ~providerEvents[f.providerId].loading
    /\ providerEvents[f.providerId].error = NULL
    /\ providerEvents[f.providerId].data # <<>>

\* every fetch of the current generation of provider events has completed
EventsSettled ==
  /\ ~anyLoading
  /\ \A f \in fetches : f.kind = "events" => f.cancelled

\* C19: once the generation has settled, the groups hold members only of providers whose
\* fetch succeeded in it: a provider whose fetch failed contributes no record.
C19_FailedProviderContributesNothing ==
  (rendered /\ EventsSettled) =>
    \A m \in Members : providerEvents[m.providerId].error = NULL

\* C20: the fetches of the providers are independent: the completion of a current fetch
\* of a provider stores that provider's panel, its records with loading = false and
\* error = null on success and its error on failure, whatever the state of the other
\* fetches, and leaves the panel of every other provider as it is.
C20_ProviderFetchesAreIndependent ==
  [][\A f \in fetches :
       (f.kind = "events" /\ ~f.cancelled /\ Completes(f)) =>
         /\ ~providerEvents'[f.providerId].loading
         /\ \/ /\ providerEvents'[f.providerId].error = NULL
               /\ providerEvents'[f.providerId].data \in EventResponses(f.providerId)
            \/ providerEvents'[f.providerId].error = EventsFailedMessage
         /\ \A id \in DOMAIN providerEvents :
              id # f.providerId => providerEvents'[id] = providerEvents[id]]_vars

\* provider a holds its records while the fetch of provider b has failed
C20_Witness ==
  /\ ~providerEvents["a"].loading
  /\ providerEvents["a"].error = NULL
  /\ providerEvents["a"].data # <<>>
  /\ providerEvents["b"].error = EventsFailedMessage


----------------------------------------------------------------------------
(* C17: settlement of confirm and recreate *)

\* a step in which a confirm or recreate request settles
PageSettles == pageIssued' = pageIssued /\ pageCalls' # pageCalls

\* C17: when a confirm or recreate request settles, with success or with failure, the
\* action state returns to idle and a fresh snapshot is requested (refreshScope).
C17_SettleRequestsFreshSnapshot ==
  [][PageSettles =>
       /\ pageActionState' = NoPageAction
       /\ scopeRefreshes' = scopeRefreshes + 1]_vars

----------------------------------------------------------------------------
(* C21: the combined error list *)

\* the providers the panel state records a failed fetch for
FailedProviders == {id \in DOMAIN providerEvents : Truthy(providerEvents[id].error)}

\* the current fetch of a provider fails / succeeds in this step
FetchFails(f) == f.kind = "events" /\ ~f.cancelled /\ LoadFailed(f)

FetchSucceeds(f) ==
  /\ f.kind = "events" /\ ~f.cancelled
  /\ \E events \in EventResponses(f.providerId) : LoadSucceeded(f, events)

\* a step that re-runs the provider events effect: one of its dependencies changes
GenerationStarts == timeframe' # timeframe \/ refreshTick' # refreshTick

----------------------------------------------------------------------------
(* C22: the Confirm controls of the detail views *)

\* a confirm request for the target is the action the page shows as pending
PendingConfirm(type, target) == pageActionState = [type |-> type, target |-> target]

\* the step issues exactly one request, of this type and for this target
IssuesOne(type, target) ==
  /\ pageIssued' = pageIssued + 1
  /\ \E c \in pageCalls' :
       /\ c \notin pageCalls
       /\ pageCalls' = pageCalls \cup {c}
       /\ c.type = type /\ c.target = target

\* C22: in the detail views a click on Confirm invokes the confirm handler, once, exactly
\* if the control is enabled, and the control is enabled exactly if the provider
\* identifier of the segment or provider event is non-empty and actionState is not the
\* pending confirm for the same target; the handler then issues one confirm request.
C22_ConfirmOnlyWhenEnabled ==
  /\ [](/\ \A segment \in SelectedSegments :
             /\ ENABLED mappingHandleConfirm(segment)
                  <=> /\ Truthy(segment.providerUid)
                      /\ ~PendingConfirm("confirm-mapping", confirmMappingTarget(segment))
             /\ ENABLED mappingHandleConfirm(segment) <=> ~mappingConfirmDisabled(segment)
        /\ \A detail \in Details :
             /\ ENABLED eventHandleConfirm(detail)
                  <=> /\ Truthy(detail.providerEventId)
                      /\ ~PendingConfirm("confirm-provider-event",
                                         confirmProviderEventTarget(detail))
             /\ ENABLED eventHandleConfirm(detail) <=> ~eventConfirmDisabled(detail))
  /\ [][/\ \A segment \in SelectedSegments :
             mappingHandleConfirm(segment)
               => IssuesOne("confirm-mapping", confirmMappingTarget(segment))
        /\ \A detail \in Details :
             eventHandleConfirm(detail)
               => IssuesOne("confirm-provider-event", confirmProviderEventTarget(detail))]_vars

\* a confirm for the mapping "m1" is pending and a second request, of another kind, has
\* been issued before it settled
C22_Witness ==
  /\ pageIssued >= 2
  /\ \E c \in pageCalls : c.type = "confirm-mapping" /\ c.target = "m1"
  /\ \E c \in pageCalls : c.type # "confirm-mapping"
  /\ \E segment \in Segments : Truthy(segment.providerUid) /\ mappingConfirmDisabled(segment)

----------------------------------------------------------------------------
(* C23: the group list and the fetches of a generation *)

\* C23: the group list is computed and published only once every provider fetch of the
\* current generation has settled: the completion of a current fetch that leaves another
\* provider's fetch pending does not change the published group list.
C23_GroupsOnlyOnceAllSettled ==
  [][\A f \in fetches :
       (f.kind = "events" /\ ~f.cancelled /\ Completes(f) /\ anyLoading')
         => groups' = groups]_vars

----------------------------------------------------------------------------
(* C24: first seen wins *)

\* the Map of working groups after the first n records of the snapshot
RECURSIVE WorkingAfter(_)
WorkingAfter(n) ==
  IF n = 0 THEN <<>>
  ELSE groupsForEachStep(WorkingAfter(n - 1), Rows, flowEvents, Rows[n])

\* the first record of the snapshot with the group key
FirstOfKey(key) ==
  Rows[CHOOSE i \in 1..Len(Rows) :
         /\ groupKey(Rows[i].providerId, Rows[i].record) = key
         /\ \A j \in 1..(i - 1) : groupKey(Rows[j].providerId, Rows[j].record) # key]

\* what of a working group a later record of its key may change
Identity(group) == [group EXCEPT !.latestTimestamp = 0, !.members = <<>>]

\* C24: title and start of every group are those of the first record of the snapshot with
\* the group's key, and a later record of the key changes only latestTimestamp and the
\* member list of the working group.
C24_FirstSeenWins ==
  rendered =>
    /\ \A g \in 1..Len(groups) :
         /\ groups[g].title = FirstOfKey(groups[g].key).record.title
         /\ groups[g].start = FirstOfKey(groups[g].key).record.start
    /\ \A n \in 1..Len(Rows) :
         \A i \in 1..Len(WorkingAfter(n - 1)) :
           Identity(WorkingAfter(n)[i]) = Identity(WorkingAfter(n - 1)[i])

\* a group of two records that differ in title and in start
C24_Witness ==
  /\ rendered
  /\ \E g \in 1..Len(groups) :
       /\ Len(groups[g].members) = 2
       /\ groups[g].members[1].record.title # groups[g].members[2].record.title
       /\ groups[g].members[1].record.start # groups[g].members[2].record.start

----------------------------------------------------------------------------
(* C25: the order of the members of a group *)

\* String.prototype.toLowerCase on the names of the model
toLowerCase(name) ==
  CASE name = "Apple" -> "apple"
    [] name = "Google" -> "google"
    [] OTHER -> name

\* the lowercase names of the model in ascending order
LowerOrder == <<"a", "a:", "apple", "b", "google", "skylight">>

LowerIndex(name) == CHOOSE i \in 1..Len(LowerOrder) : LowerOrder[i] = toLowerCase(name)

----------------------------------------------------------------------------
(* C26: missing and unparseable timestamps *)

\* the timestamp field states no time: it is missing or does not parse
NoTime(value) == StatedTimes(value) = {}

\* a member of the group, or the flow of its canonical id, has a field without a time
HasNoTimeField(g) ==
  \/ \E k \in 1..Len(groups[g].members) :
       \/ NoTime(groups[g].members[k].record.last_updated)
       \/ NoTime(groups[g].members[k].record.start)
  \/ /\ Truthy(groups[g].orbitEventId)
     /\ NoTime(flowByOrbit(flowEvents, groups[g].orbitEventId).occurred_at)

\* C26: a missing or unparseable timestamp counts as the earliest possible time and does
\* not abort the grouping: in a group with such a field latestTimestamp is not above the
\* latest of the valid timestamps of the group, and every record is a member of a group.
C26_BadTimestampIsEarliest ==
  rendered =>
    /\ EveryRowIsAMember
    /\ \A g \in 1..Len(groups) :
         (HasNoTimeField(g) /\ GroupTimes(g) # {})
           => groups[g].latestTimestamp <= MathMax(GroupTimes(g))

----------------------------------------------------------------------------
(* C27: the target of a link request *)

\* the members of the published group list that show the record of the pair
PublishedMembers(providerId, providerEventId) ==
  {m \in Members : m.providerId = providerId /\ m.record.provider_event_id = providerEventId}

\* C27: every link request that is issued carries a target canonical id that differs from
\* the canonical id the record has in the published snapshot at the moment of the submit.
C27_LinkTargetDiffersFromCurrentId ==
  [][(Issues /\ Issued.type = "link") =>
       \A m \in PublishedMembers(Issued.providerId, Issued.providerEventId) :
         m.record.orbit_event_id # Issued.target]_vars

----------------------------------------------------------------------------
(* C28: loading ends *)

\* a step that triggers a refresh: the activity window or the refresh tick changes
RefreshTriggers == timeframe' # timeframe \/ refreshTick' # refreshTick

\* C28: if every fetch is answered and the refresh triggers stop, then from some time on
\* no panel is loading and flowLoading is false, so that the Refresh control is enabled.
C28_LoadingEnds ==
  <>[][~RefreshTriggers]_vars => <>[](~flowLoading /\ ~anyLoading)

\* two generations were superseded, by a change of the activity window and by a refresh,
\* every fetch has been answered and nothing is loading
C28_Witness ==
  /\ timeframe = "all"
  /\ refreshTick = 1
  /\ fetches = {}
  /\ ~flowLoading /\ ~anyLoading

----------------------------------------------------------------------------
(* C29: orbitLinkCount and providerCount *)

\* C29: in a group with a canonical id the orbitLinkCount of every member is the
\* providerCount of the group and at least 1; in a group without a canonical id the
\* orbitLinkCount of every member is 0 and the providerCount is 1.
C29_LinkCountIsProviderCount ==
  rendered =>
    \A g \in 1..Len(groups) :
      IF Truthy(groups[g].orbitEventId)
        THEN \A k \in 1..Len(groups[g].members) :
               /\ groups[g].members[k].orbitLinkCount = groups[g].providerCount
               /\ groups[g].members[k].orbitLinkCount >= 1
        ELSE /\ groups[g].providerCount = 1
             /\ \A k \in 1..Len(groups[g].members) : groups[g].members[k].orbitLinkCount = 0

----------------------------------------------------------------------------
(* C30: several flow records of one canonical id *)

\* the places of the fetched flow list that hold a flow record of the id
FlowsOf(id) == {i \in 1..Len(flowEvents) : flowEvents[i].id = id}

\* the last flow record of the id in the fetched list
LastFlowOf(id) == flowEvents[CHOOSE i \in FlowsOf(id) : \A j \in FlowsOf(id) : j <= i]

\* C30: where the fetched flow list holds several flow records of a canonical id, one of
\* them, the last of the list, gives the direction label of every member of the group of
\* the id and the flow time that enters orbitOccurredAt and latestTimestamp.
C30_LastFlowRecordIsUsed ==
  rendered =>
    \A g \in 1..Len(groups) :
      (Truthy(groups[g].orbitEventId) /\ FlowsOf(groups[g].orbitEventId) # {}) =>
        LET flow == LastFlowOf(groups[g].orbitEventId)
        IN  /\ groups[g].orbitOccurredAt = flow.occurred_at
            /\ groups[g].latestTimestamp = parseTimestamp(flow.occurred_at)
            /\ \A k \in 1..Len(groups[g].members) :
                 groups[g].members[k].directionLabel
                   = IF groups[g].members[k].providerId = flow.source_provider_id
                       THEN "Outbound"
                       ELSE IF groups[g].members[k].providerId = flow.target_provider_id
                         THEN "Inbound" ELSE "Unmapped"

\* the list holds two flow records of o1 that differ in direction and in time, and the
\* group of o1 has members of two providers
C30_Witness ==
  /\ rendered
  /\ Len(flowEvents) = 2
  /\ flowEvents[1].id = "o1" /\ flowEvents[2].id = "o1"
  /\ flowEvents[1].source_provider_id # flowEvents[2].source_provider_id
  /\ flowEvents[1].occurred_at # flowEvents[2].occurred_at
  /\ \E g \in 1..Len(groups) :
       /\ groups[g].orbitEventId = "o1"
       /\ groups[g].providerCount = 2

====
